---- MODULE Spec2Model ----
(***************************************************************************)
(* SimpleLang compiler (src/main.cpp): tokenize -> parseProgram ->         *)
(* printAST -> generateAssembly, as main() runs them.                      *)
(*                                                                         *)
(* Text is modelled with TLA+ strings; a source text is the sequence of    *)
(* its characters (one-character strings).  Vector and string indices are  *)
(* 0-based as in the C++ code; TLA+ sequences are 1-based, so element i    *)
(* of a vector v is v[i + 1].                                              *)
(***************************************************************************)
EXTENDS Integers, Sequences, FiniteSets, TLC

VARIABLES
    source,        \* main: string source (the text read from test.txt)
    pc,            \* main's position: tokenize, parse, print, header, generate, done, crashed
    scan,          \* tokenize: the loop variable pos
    toks,          \* tokenize: the local vector tokens
    tokens,        \* global vector<Token> tokens
    pos,           \* global size_t pos (the parser cursor)
    junk,          \* what the storage behind tokens' last element was read to hold
    stack,         \* the parser's pending calls (its call stack), innermost first
    vals,          \* the parser's finished sub-results (locals of the pending calls)
    root,          \* parseProgram: ASTNode root / main: ASTNode root
    labelCounter,  \* generateAssembly: static int labelCounter
    symbolTable,   \* main: unordered_map<string,int> symbolTable
    printed,       \* stdout: the lines printAST wrote
    header,        \* stdout: whether "\nAssembly Code:\n" was written
    listing,       \* stdout: the lines generateAssembly wrote
    errs,          \* stderr: the lines main's catch wrote
    run,           \* which run of the pipeline this is (1 or 2)
    first          \* the output of run 1, kept for comparison with run 2

vars == <<source, pc, scan, toks, tokens, pos, junk, stack, vals, root,
          labelCounter, symbolTable, printed, header, listing, errs,
          run, first>>

-----------------------------------------------------------------------------
(* Bounds of the model *)

\* longest source text drawn from every string over Alphabet
MaxSrcLen == 3
\* longest top-level statement sequence drawn from SeqStmts
MaxStmts == 2
\* deepest nesting of if statements in the generated programs
MaxDepth == 2
\* number of Token-sized slots behind the vector's end that can be read
\* before the read leaves mapped memory
MaxJunk == 2

-----------------------------------------------------------------------------
(* Characters: <cctype> in the "C" locale *)

Letters ==
    {"a","b","c","d","e","f","g","h","i","j","k","l","m","n","o","p","q","r",
     "s","t","u","v","w","x","y","z","A","B","C","D","E","F","G","H","I","J",
     "K","L","M","N","O","P","Q","R","S","T","U","V","W","X","Y","Z"}
Digits == {"0","1","2","3","4","5","6","7","8","9"}
\* (the vertical tab, also a space, has no TLA+ escape)
Spaces == {" ", "\t", "\n", "\r", "\f"}

isspace(c) == c \in Spaces
isalpha(c) == c \in Letters
isdigit(c) == c \in Digits

\* the value of source[size()]: the string's terminating null character
NUL == "\\0"

\* source[p] for 0 <= p <= source.size()
CharAt(src, p) == IF p < Len(src) THEN src[p + 1] ELSE NUL

-----------------------------------------------------------------------------
(* Tokens and the lexer *)

TokenType ==
    {"ASSIGN_OP", "PLUS_OP", "MINUS_OP", "SEMICOLON", "LBRACE", "RBRACE",
     "LPAREN", "RPAREN", "EQ_OP", "UNKNOWN", "INT_KEYWORD", "IF_KEYWORD",
     "IDENTIFIER", "NUMBER"}

Token(t, v) == [type |-> t, value |-> v]

\* while (isalpha(source[pos])) result += source[pos++];   (same for isdigit)
\* returns the text collected and the position the loop stopped at
RECURSIVE ScanRun(_, _, _, _)
ScanRun(src, p, class, text) ==
    IF CharAt(src, p) \in class
    THEN ScanRun(src, p + 1, class, text \o CharAt(src, p))
    ELSE [text |-> text, pos |-> p]

Keyword(result) ==
    IF result = "int" THEN Token("INT_KEYWORD", result)
    ELSE IF result = "if" THEN Token("IF_KEYWORD", result)
    ELSE Token("IDENTIFIER", result)

\* AfterRun without the --pos
AfterRun_NoStepBack(p) == p

\* position after the alphabetic or numeric run: the loop's end, then --pos
AfterRun(p) == p - 1

\* One iteration of tokenize's for loop at position p, the ++pos included.
LexStep(src, p, ts) ==
    LET current == CharAt(src, p) IN
    IF isspace(current) THEN [pos |-> p + 1, tokens |-> ts]
    ELSE IF current = "=" THEN
        IF CharAt(src, p + 1) = "="
        THEN [pos |-> p + 2, tokens |-> Append(ts, Token("EQ_OP", "=="))]
        ELSE [pos |-> p + 1, tokens |-> Append(ts, Token("ASSIGN_OP", "="))]
    ELSE IF current = "+" THEN [pos |-> p + 1, tokens |-> Append(ts, Token("PLUS_OP", "+"))]
    ELSE IF current = "-" THEN [pos |-> p + 1, tokens |-> Append(ts, Token("MINUS_OP", "-"))]
    ELSE IF current = ";" THEN [pos |-> p + 1, tokens |-> Append(ts, Token("SEMICOLON", ";"))]
    ELSE IF current = "{" THEN [pos |-> p + 1, tokens |-> Append(ts, Token("LBRACE", "{"))]
    ELSE IF current = "}" THEN [pos |-> p + 1, tokens |-> Append(ts, Token("RBRACE", "}"))]
    ELSE IF current = "(" THEN [pos |-> p + 1, tokens |-> Append(ts, Token("LPAREN", "("))]
    ELSE IF current = ")" THEN [pos |-> p + 1, tokens |-> Append(ts, Token("RPAREN", ")"))]
    ELSE IF isalpha(current) THEN
        LET r == ScanRun(src, p, Letters, "") IN
        [pos |-> AfterRun(r.pos) + 1, tokens |-> Append(ts, Keyword(r.text))]
    ELSE IF isdigit(current) THEN
        LET r == ScanRun(src, p, Digits, "") IN
        [pos |-> AfterRun(r.pos) + 1, tokens |-> Append(ts, Token("NUMBER", r.text))]
    ELSE [pos |-> p + 1, tokens |-> Append(ts, Token("UNKNOWN", current))]

\* tokenize(source): the for loop run to its end
RECURSIVE LexFrom(_, _, _)
LexFrom(src, p, ts) ==
    IF p < Len(src)
    THEN LET s == LexStep(src, p, ts) IN LexFrom(src, s.pos, s.tokens)
    ELSE ts

tokenize(src) == LexFrom(src, 0, <<>>)

-----------------------------------------------------------------------------
(* The AST *)

ASTNode(val, childNodes) == [value |-> val, children |-> childNodes]

\* main's root before parseProgram has returned one
NoTree == ASTNode("", <<>>)

-----------------------------------------------------------------------------
(* Reading tokens[pos] *)

\* A slot behind the vector's last element holds an indeterminate Token: its
\* type field is any enumerator or none of them, its text is not a token's.
JunkTypes == TokenType \cup {"INVALID"}
JunkText == "?"

InBounds(p) == p < Len(tokens)

\* the read leaves the memory the process can read
Faults(p) == p >= Len(tokens) + MaxJunk

\* The contents of the slots behind the end after a read of tokens[p]: a slot
\* read before keeps what it was read to hold, a slot read for the first time
\* holds any value.
JunkAfterRead(p) ==
    IF InBounds(p) \/ p - Len(tokens) < Len(junk)
    THEN {junk}
    ELSE {Append(junk, Token(t, JunkText)) : t \in JunkTypes}

TokenAt(j, p) == IF InBounds(p) THEN tokens[p + 1] ELSE j[p - Len(tokens) + 1]

-----------------------------------------------------------------------------
(* The parser.  Each pending call or pending step of a call is an entry of    *)
(* stack; each action below runs the parser up to and including its next      *)
(* read of tokens[pos], and the returns that follow it.                       *)

Call(f) == [op |-> "call", type |-> f, keep |-> FALSE]
Consume(t, keep) == [op |-> "consume", type |-> t, keep |-> keep]
Return(f) == [op |-> "return", type |-> f, keep |-> FALSE]

\* parseDeclaration's body
DeclarationSteps ==
    << Consume("INT_KEYWORD", FALSE), Consume("IDENTIFIER", TRUE),
       Consume("SEMICOLON", FALSE), Return("parseDeclaration") >>

\* parseExpression's body up to its test of the token after the first term
ExpressionSteps == << Call("parseTerm"), Call("parseExpression.op") >>

\* parseAssignment's body
AssignmentSteps ==
    << Consume("IDENTIFIER", TRUE), Consume("ASSIGN_OP", FALSE) >>
    \o ExpressionSteps
    \o << Consume("SEMICOLON", FALSE), Return("parseAssignment") >>

\* parseCondition's body
ConditionSteps ==
    << Call("parseTerm"), Consume("EQ_OP", FALSE), Call("parseTerm"),
       Return("parseCondition") >>

\* parseIfStatement's body up to its while loop
IfSteps ==
    << Consume("IF_KEYWORD", FALSE), Consume("LPAREN", FALSE) >>
    \o ConditionSteps
    \o << Consume("RPAREN", FALSE), Consume("LBRACE", FALSE),
          Return("body"), Call("parseIfStatement.while") >>

\* parseIfStatement: one more body statement, then the loop test again
BodyStatementSteps ==
    << Call("parseStatement"), Return("body.push_back"),
       Call("parseIfStatement.while") >>

\* parseIfStatement after its loop
IfEndSteps == << Consume("RBRACE", FALSE), Return("parseIfStatement") >>

\* parseProgram: one more statement
ProgramStatementSteps ==
    << Call("parseStatement"), Return("root.children.push_back") >>

\* The value a returning function builds from the results on vals (newest first).
ReturnValue(f, vs) ==
    CASE f = "parseIdentifier" ->
           << ASTNode("Identifier", <<ASTNode(vs[1], <<>>)>>) >> \o Tail(vs)
      [] f = "parseTerm.number" ->
           << ASTNode("Number", <<ASTNode(vs[1], <<>>)>>) >> \o Tail(vs)
      [] f = "parseDeclaration" ->
           << ASTNode("Declaration",
                      <<ASTNode("Identifier", <<ASTNode(vs[1], <<>>)>>)>>) >>
           \o Tail(vs)
      [] f = "parseAssignment" ->
           << ASTNode("Assignment",
                      <<ASTNode("Identifier", <<ASTNode(vs[2], <<>>)>>), vs[1]>>) >>
           \o Tail(Tail(vs))
      [] f = "parseExpression" ->
           << ASTNode(vs[2], <<vs[3], vs[1]>>) >> \o Tail(Tail(Tail(vs)))
      [] f = "parseCondition" ->
           << ASTNode("==", <<vs[2], vs[1]>>) >> \o Tail(Tail(vs))
      [] f = "body" -> << <<>> >> \o vs
      [] f = "body.push_back" ->
           << Append(vs[2], vs[1]) >> \o Tail(Tail(vs))
      [] f = "parseIfStatement" ->
           << ASTNode("If", <<vs[2], ASTNode("Body", vs[1])>>) >> \o Tail(Tail(vs))

\* Run the returns at the head of the pending steps.
RECURSIVE Returns(_, _, _)
Returns(st, vs, rt) ==
    IF st # <<>> /\ Head(st).op = "return"
    THEN IF Head(st).type = "root.children.push_back"
         THEN Returns(Tail(st), Tail(vs),
                      ASTNode(rt.value, Append(rt.children, vs[1])))
         ELSE Returns(Tail(st), ReturnValue(Head(st).type, vs), rt)
    ELSE [stack |-> st, vals |-> vs, root |-> rt]

-----------------------------------------------------------------------------
(* printAST *)

\* for (int i = 0; i < level; ++i) cout << "  ";
RECURSIVE Indent(_)
Indent(level) == IF level <= 0 THEN "" ELSE "  " \o Indent(level - 1)

\* the lines printAST(node, level) writes
RECURSIVE printAST(_, _), printChildren(_, _)
printAST(node, level) ==
    << Indent(level) \o node.value >> \o printChildren(node.children, level + 1)
printChildren(nodes, level) ==
    IF nodes = <<>> THEN <<>>
    ELSE printAST(Head(nodes), level) \o printChildren(Tail(nodes), level)

-----------------------------------------------------------------------------
(* generateAssembly.  g is the generator's state: the lines written so far, *)
(* the static labelCounter, and the symbol table.                          *)

Emit(g, line) == [g EXCEPT !.lines = Append(@, line)]

\* symbolTable[varName] = 0;
Declare(table, varName) ==
    [n \in DOMAIN table \cup {varName} |-> IF n = varName THEN 0 ELSE table[n]]

JnzLine(label) == "  JNZ LABEL" \o ToString(label)
LabelLine(label) == "LABEL" \o ToString(label) \o ":"

\* GenAssignment with the store inside the handled cases only
GenAssignment_StoreOnlyAfterLoad(node, g) ==
    LET varName == node.children[1].children[1].value
        expr == node.children[2]
    IN IF expr.value = "Number"
       THEN Emit(Emit(g, "  MVI A, " \o expr.children[1].value), "  STA " \o varName)
       ELSE IF expr.value = "+"
       THEN LET left == expr.children[1]
                right == expr.children[2]
                ga == IF left.value = "Identifier"
                      THEN Emit(g, "  MOV A, " \o left.children[1].value)
                      ELSE Emit(g, "  MVI A, " \o left.children[1].value)
                gb == IF right.value = "Identifier"
                      THEN Emit(ga, "  ADD " \o right.children[1].value)
                      ELSE Emit(ga, "  ADI " \o right.children[1].value)
            IN Emit(gb, "  STA " \o varName)
       ELSE g

\* the "Assignment" branch
GenAssignment(node, g) ==
    LET varName == node.children[1].children[1].value
        expr == node.children[2]
        g1 == IF expr.value = "Number"
              THEN Emit(g, "  MVI A, " \o expr.children[1].value)
              ELSE IF expr.value = "+"
              THEN LET left == expr.children[1]
                       right == expr.children[2]
                       ga == IF left.value = "Identifier"
                             THEN Emit(g, "  MOV A, " \o left.children[1].value)
                             ELSE Emit(g, "  MVI A, " \o left.children[1].value)
                   IN IF right.value = "Identifier"
                      THEN Emit(ga, "  ADD " \o right.children[1].value)
                      ELSE Emit(ga, "  ADI " \o right.children[1].value)
              ELSE g
    IN Emit(g1, "  STA " \o varName)

\* the "==" branch
GenCondition(node, g) ==
    LET leftVar == node.children[1].children[1].value
        rightVal == node.children[2].children[1].value
    IN Emit(Emit(g, "  MOV A, " \o leftVar), "  CPI " \o rightVal)

RECURSIVE generateAssembly(_, _), generateEach(_, _)

\* GenIf with the label defined right after the jump, before the body
GenIf_LabelBeforeBody(node, g) ==
    LET label == g.labelCounter
        g0 == [g EXCEPT !.labelCounter = @ + 1]
        g1 == generateAssembly(node.children[1], g0)
        g2 == Emit(Emit(g1, JnzLine(label)), LabelLine(label))
    IN generateEach(node.children[2].children, g2)

\* GenIf with the counter incremented only after the body's code
GenIf_CountAfterBody(node, g) ==
    LET label == g.labelCounter
        g1 == generateAssembly(node.children[1], g)
        g2 == Emit(g1, JnzLine(label))
        g3 == generateEach(node.children[2].children, g2)
    IN [Emit(g3, LabelLine(label)) EXCEPT !.labelCounter = @ + 1]

\* the "If" branch
GenIf(node, g) ==
    LET label == g.labelCounter
        g0 == [g EXCEPT !.labelCounter = @ + 1]
        g1 == generateAssembly(node.children[1], g0)
        g2 == Emit(g1, JnzLine(label))
        g3 == generateEach(node.children[2].children, g2)
    IN Emit(g3, LabelLine(label))

generateAssembly(node, g) ==
    IF node.value = "Program" THEN generateEach(node.children, g)
    ELSE IF node.value = "Declaration"
    THEN [g EXCEPT !.symbolTable = Declare(@, node.children[1].children[1].value)]
    ELSE IF node.value = "Assignment" THEN GenAssignment(node, g)
    ELSE IF node.value = "If" THEN GenIf(node, g)
    ELSE IF node.value = "==" THEN GenCondition(node, g)
    ELSE g

\* for (const auto &child : ...) generateAssembly(child, symbolTable);
generateEach(nodes, g) ==
    IF nodes = <<>> THEN g
    ELSE generateEach(Tail(nodes), generateAssembly(Head(nodes), g))

-----------------------------------------------------------------------------
(* The source texts the runs are given *)

\* every string over set S of length at most n
RECURSIVE StringsUpTo(_, _)
StringsUpTo(S, n) ==
    IF n = 0 THEN {<<>>}
    ELSE LET shorter == StringsUpTo(S, n - 1)
         IN shorter \cup {Append(w, c) : w \in shorter, c \in S}

Alphabet == {" ", "\t", "=", "+", ";", "i", "f", "4", "@"}

Terms == { <<"y">>, <<"4", "2">> }
Exprs == Terms \cup {a \o <<o>> \o b : a \in Terms, o \in {"+", "-"}, b \in Terms}
Conds == {a \o <<"=", "=">> \o b : a \in Terms, b \in Terms}

DeclText == <<"i", "n", "t", " ", "x", ";">>
AssignText(e) == <<"x", " ", "=">> \o e \o <<";">>
IfText(c, body) == <<"i", "f", "(">> \o c \o <<")", "{">> \o body \o <<"}">>

SimpleStmts == {DeclText} \cup {AssignText(e) : e \in Exprs}
BodyPair == {DeclText, AssignText(<<"4", "2">>)}
LeafBodies == {<<>>} \cup SimpleStmts \cup {s \o t : s \in BodyPair, t \in BodyPair}
FlatIfs == {IfText(c, b) : c \in Conds, b \in LeafBodies}

Cond0 == <<"y", "=", "=", "4", "2">>
Around == {<<>>, AssignText(<<"y">>)}

\* if statements nested exactly d deep
RECURSIVE NestedIfs(_)
NestedIfs(d) ==
    IF d <= 1 THEN {IfText(Cond0, b) : b \in Around}
    ELSE {IfText(Cond0, pre \o n \o post) :
              pre \in Around, n \in NestedIfs(d - 1), post \in Around}

Statements == SimpleStmts \cup FlatIfs \cup UNION {NestedIfs(d) : d \in 2..MaxDepth}

SeqStmts ==
    { DeclText, AssignText(<<"y", "+", "4", "2">>),
      IfText(Cond0, IfText(Cond0, AssignText(<<"4", "2">>))) }

\* statement sequences of length at most n over SeqStmts
RECURSIVE StmtSeqs(_)
StmtSeqs(n) ==
    IF n = 0 THEN {<<>>}
    ELSE LET shorter == StmtSeqs(n - 1)
         IN shorter \cup {w \o st : w \in shorter, st \in SeqStmts}

Programs == Statements \cup StmtSeqs(MaxStmts)

\* a program cut off after any number of characters
Truncated == UNION {{SubSeq(w, 1, n) : n \in 0..Len(w)} : w \in Programs}

\* a statement sequence with one character replaced by a stray '@'
Stray == UNION {{[w EXCEPT ![k] = "@"] : k \in 1..Len(w)} : w \in StmtSeqs(MaxStmts)}

Sources == Programs \cup Truncated \cup Stray \cup StringsUpTo(Alphabet, MaxSrcLen)

-----------------------------------------------------------------------------
(* The run *)

EmptyTable == [n \in {} |-> 0]
NoOutput == [printed |-> <<>>, header |-> FALSE, listing |-> <<>>, errs |-> <<>>]

Init ==
    /\ source \in Sources
    /\ pc = "tokenize"
    /\ scan = 0
    /\ toks = <<>>
    /\ tokens = <<>>
    /\ pos = 0
    /\ junk = <<>>
    /\ stack = <<>>
    /\ vals = <<>>
    /\ root = NoTree
    /\ labelCounter = 0
    /\ symbolTable = EmptyTable
    /\ printed = <<>>
    /\ header = FALSE
    /\ listing = <<>>
    /\ errs = <<>>
    /\ run = 1
    /\ first = NoOutput

\* tokenize: one iteration of the for loop
TokenizeLoop ==
    /\ pc = "tokenize"
    /\ scan < Len(source)
    /\ LET s == LexStep(source, scan, toks)
       IN scan' = s.pos /\ toks' = s.tokens
    /\ UNCHANGED <<source, pc, tokens, pos, junk, stack, vals, root, labelCounter,
                   symbolTable, printed, header, listing, errs, run, first>>

\* tokenize returns, main assigns the global tokens and calls parseProgram,
\* which constructs its root
TokenizeReturn ==
    /\ pc = "tokenize"
    /\ scan >= Len(source)
    /\ tokens' = toks
    /\ root' = ASTNode("Program", <<>>)
    /\ pc' = "parse"
    /\ UNCHANGED <<source, scan, toks, pos, junk, stack, vals, labelCounter,
                   symbolTable, printed, header, listing, errs, run, first>>

\* the parser goes on with pending steps st, results vs, root rt
Continue(st, vs, rt, p, j) ==
    LET r == Returns(st, vs, rt)
    IN /\ stack' = r.stack
       /\ vals' = r.vals
       /\ root' = r.root
       /\ pos' = p
       /\ junk' = j
       /\ UNCHANGED <<source, pc, scan, toks, tokens, labelCounter, symbolTable,
                      printed, header, listing, errs, run, first>>

\* Throw with the failure caught where the statement was being parsed: the
\* error is reported and the run goes on with the statements parsed so far
Throw_SkipAndContinue(msg, j) ==
    /\ pc' = "print"
    /\ errs' = Append(errs, "Error: " \o msg)
    /\ stack' = <<>>
    /\ vals' = <<>>
    /\ junk' = j
    /\ UNCHANGED <<source, scan, toks, tokens, pos, root, labelCounter, symbolTable,
                   printed, header, listing, run, first>>

\* throw runtime_error(msg): every pending call is unwound, main's catch
\* writes the message and main returns 0
Throw(msg, j) ==
    /\ pc' = "done"
    /\ errs' = Append(errs, "Error: " \o msg)
    /\ stack' = <<>>
    /\ vals' = <<>>
    /\ root' = NoTree
    /\ junk' = j
    /\ UNCHANGED <<source, scan, toks, tokens, pos, labelCounter, symbolTable,
                   printed, header, listing, run, first>>

\* the process is killed by a memory fault
Crash(j) ==
    /\ pc' = "crashed"
    /\ junk' = j
    /\ UNCHANGED <<source, scan, toks, tokens, pos, stack, vals, root,
                   labelCounter, symbolTable, printed, header, listing, errs,
                   run, first>>

Pending(f) == pc = "parse" /\ stack # <<>> /\ Head(stack) = Call(f)

\* parseProgram: the while test, then parseStatement is called or root returned
ParseProgramLoop ==
    /\ pc = "parse"
    /\ stack = <<>>
    /\ IF pos < Len(tokens)
       THEN Continue(ProgramStatementSteps, vals, root, pos, junk)
       ELSE /\ pc' = "print"
            /\ UNCHANGED <<source, scan, toks, tokens, pos, junk, stack, vals, root,
                           labelCounter, symbolTable, printed, header, listing,
                           errs, run, first>>

\* parseStatement: dispatch on tokens[pos].type
ParseStatement ==
    /\ Pending("parseStatement")
    /\ IF Faults(pos) THEN Crash(junk)
       ELSE \E j \in JunkAfterRead(pos) :
              LET t == TokenAt(j, pos).type
                  steps == IF t = "INT_KEYWORD" THEN DeclarationSteps
                           ELSE IF t = "IF_KEYWORD" THEN IfSteps
                           ELSE AssignmentSteps
              IN Continue(steps \o Tail(stack), vals, root, pos, j)

\* parseTerm: dispatch on tokens[pos].type
ParseTerm ==
    /\ Pending("parseTerm")
    /\ IF Faults(pos) THEN Crash(junk)
       ELSE \E j \in JunkAfterRead(pos) :
              LET t == TokenAt(j, pos).type
              IN IF t = "NUMBER"
                 THEN Continue(<<Consume("NUMBER", TRUE), Return("parseTerm.number")>>
                               \o Tail(stack), vals, root, pos, j)
                 ELSE IF t = "IDENTIFIER"
                 THEN Continue(<<Consume("IDENTIFIER", TRUE), Return("parseIdentifier")>>
                               \o Tail(stack), vals, root, pos, j)
                 ELSE Throw("Expected term", j)

\* parseExpression: the test for an operator after the first term
ParseExpressionOp ==
    /\ Pending("parseExpression.op")
    /\ IF Faults(pos) THEN Crash(junk)
       ELSE \E j \in JunkAfterRead(pos) :
              LET t == TokenAt(j, pos).type
              IN IF t = "PLUS_OP" \/ t = "MINUS_OP"
                 THEN Continue(<<Consume(t, TRUE), Call("parseTerm"),
                                 Return("parseExpression")>> \o Tail(stack),
                               vals, root, pos, j)
                 ELSE Continue(Tail(stack), vals, root, pos, j)

\* parseIfStatement: the while test of the body loop
ParseIfWhile ==
    /\ Pending("parseIfStatement.while")
    /\ IF Faults(pos) THEN Crash(junk)
       ELSE \E j \in JunkAfterRead(pos) :
              LET t == TokenAt(j, pos).type
              IN IF t # "RBRACE"
                 THEN Continue(BodyStatementSteps \o Tail(stack), vals, root, pos, j)
                 ELSE Continue(IfEndSteps \o Tail(stack), vals, root, pos, j)

\* the cursor after consume returned tokens[pos++]
Advance(p) == p + 1

\* consume(type)
ConsumeToken ==
    /\ pc = "parse"
    /\ stack # <<>>
    /\ Head(stack).op = "consume"
    /\ IF Faults(pos) THEN Crash(junk)
       ELSE \E j \in JunkAfterRead(pos) :
              LET tok == TokenAt(j, pos)
              IN IF tok.type = Head(stack).type
                 THEN \/ Continue(Tail(stack),
                                  IF Head(stack).keep THEN <<tok.value>> \o vals ELSE vals,
                                  root, Advance(pos), j)
                      \* return tokens[pos++] copies the indeterminate string
                      \* of a slot behind the end
                      \/ ~InBounds(pos) /\ Crash(j)
                 ELSE Throw("Unexpected token", j)

\* main: printAST(root)
PrintAST ==
    /\ pc = "print"
    /\ printed' = printed \o printAST(root, 0)
    /\ pc' = "header"
    /\ UNCHANGED <<source, scan, toks, tokens, pos, junk, stack, vals, root,
                   labelCounter, symbolTable, header, listing, errs, run, first>>

\* main: cout << "\nAssembly Code:\n"
PrintHeader ==
    /\ pc = "header"
    /\ header' = TRUE
    /\ pc' = "generate"
    /\ UNCHANGED <<source, scan, toks, tokens, pos, junk, stack, vals, root,
                   labelCounter, symbolTable, printed, listing, errs, run, first>>

\* main: generateAssembly(root, symbolTable), then return 0
GenerateAssembly ==
    /\ pc = "generate"
    /\ LET g == generateAssembly(root, [lines |-> listing,
                                        labelCounter |-> labelCounter,
                                        symbolTable |-> symbolTable])
       IN /\ listing' = g.lines
          /\ labelCounter' = g.labelCounter
          /\ symbolTable' = g.symbolTable
    /\ pc' = "done"
    /\ UNCHANGED <<source, scan, toks, tokens, pos, junk, stack, vals, root,
                   printed, header, errs, run, first>>

\* The pipeline is run a second time, in the same process, on the same
\* source: main's locals and the output are fresh, the globals pos and
\* tokens and the static labelCounter are what the first run left.
RunAgain ==
    /\ pc = "done"
    /\ run = 1
    /\ run' = 2
    /\ first' = [printed |-> printed, header |-> header, listing |-> listing,
                 errs |-> errs]
    /\ pc' = "tokenize"
    /\ scan' = 0
    /\ toks' = <<>>
    /\ junk' = <<>>
    /\ root' = NoTree
    /\ symbolTable' = EmptyTable
    /\ printed' = <<>>
    /\ header' = FALSE
    /\ listing' = <<>>
    /\ errs' = <<>>
    /\ UNCHANGED <<source, tokens, pos, stack, vals, labelCounter>>

Next ==
    \/ TokenizeLoop
    \/ TokenizeReturn
    \/ ParseProgramLoop
    \/ ParseStatement
    \/ ParseTerm
    \/ ParseExpressionOp
    \/ ParseIfWhile
    \/ ConsumeToken
    \/ PrintAST
    \/ PrintHeader
    \/ GenerateAssembly

Spec == Init /\ [][Next]_vars

NextTwice == Next \/ RunAgain

SpecTwice == Init /\ [][NextTwice]_vars

-----------------------------------------------------------------------------
(* Vocabulary of the properties *)

\* parseProgram has returned a tree to main
Returned == pc \in {"print", "header", "generate", "done"} /\ errs = <<>>

\* the run has written its whole output
Finished == pc = "done" /\ errs = <<>>

Punctuation == {"=", "+", "-", ";", "{", "}", "(", ")"}

\* the characters of a text that are not whitespace, joined
RECURSIVE Squeeze(_)
Squeeze(text) ==
    IF text = <<>> THEN ""
    ELSE IF Head(text) \in Spaces THEN Squeeze(Tail(text))
    ELSE Head(text) \o Squeeze(Tail(text))

\* the texts of a token sequence, joined
RECURSIVE JoinValues(_)
JoinValues(ts) == IF ts = <<>> THEN "" ELSE Head(ts).value \o JoinValues(Tail(ts))

\* the tokens of each maximal whitespace-free piece of a text, piece by piece
RECURSIVE TokensByPiece(_, _)
TokensByPiece(text, piece) ==
    IF text = <<>> THEN tokenize(piece)
    ELSE IF Head(text) \in Spaces
    THEN tokenize(piece) \o TokensByPiece(Tail(text), <<>>)
    ELSE TokensByPiece(Tail(text), Append(piece, Head(text)))

\* one unknown token for each character outside every lexical class, in order
RECURSIVE UnknownsOf(_)
UnknownsOf(text) ==
    IF text = <<>> THEN <<>>
    ELSE IF Head(text) \in Spaces \cup Punctuation \cup Letters \cup Digits
    THEN UnknownsOf(Tail(text))
    ELSE <<Token("UNKNOWN", Head(text))>> \o UnknownsOf(Tail(text))

RECURSIVE OfType(_, _)
OfType(ts, t) ==
    IF ts = <<>> THEN <<>>
    ELSE IF Head(ts).type = t THEN <<Head(ts)>> \o OfType(Tail(ts), t)
    ELSE OfType(Tail(ts), t)

\* tokenize has returned in this run
Lexed == pc # "tokenize"

\* tokenize has just returned: parseProgram has not yet tested its loop
JustLexed == pc = "parse" /\ stack = <<>> /\ root.children = <<>>

-----------------------------------------------------------------------------
(* C7 *)

\* C7: tokenize never runs past the end of the source; the texts of the
\* tokens produced so far, joined, are the scanned part of the source with
\* its whitespace removed; and once tokenize has returned, the tokens are
\* those of the whitespace-free pieces of the source taken one by one (no
\* token spans a whitespace character), and the unknown tokens are exactly
\* the characters outside every lexical class, one token each, in order.
C7_TokensReconstructSource ==
    /\ pc = "tokenize" =>
          /\ scan <= Len(source)
          /\ JoinValues(toks) = Squeeze(SubSeq(source, 1, scan))
    /\ JustLexed =>
          /\ JoinValues(tokens) = Squeeze(source)
          /\ tokens = TokensByPiece(source, <<>>)
          /\ OfType(tokens, "UNKNOWN") = UnknownsOf(source)

\* C7 witness: a source with whitespace, an unknown character and a run of
\* letters has been tokenized
C7_Witness ==
    /\ Lexed
    /\ \E i \in 1..Len(source) : source[i] \in Spaces
    /\ \E i \in 1..Len(tokens) : tokens[i].type = "UNKNOWN"
    /\ \E i \in 1..Len(tokens) : tokens[i].type = "IF_KEYWORD"

-----------------------------------------------------------------------------
(* The grammar of spec section 6, over token types *)

Types(ts) == [i \in 1..Len(ts) |-> ts[i].type]

\* the type at 1-based index i of ks, or "EOF" behind its end
TypeAt(ks, i) == IF i <= Len(ks) THEN ks[i] ELSE "EOF"

IsTermType(k) == k \in {"NUMBER", "IDENTIFIER"}

\* Expression := Term (("+" | "-") Term)?   -- the index after it, or 0
ExpressionEnd(ks, i) ==
    IF ~IsTermType(TypeAt(ks, i)) THEN 0
    ELSE IF TypeAt(ks, i + 1) \in {"PLUS_OP", "MINUS_OP"}
    THEN IF IsTermType(TypeAt(ks, i + 2)) THEN i + 3 ELSE 0
    ELSE i + 1

\* Statement and Statement* "}"  -- the index after it, or 0
RECURSIVE StatementEnd(_, _), BodyEnd(_, _)
StatementEnd(ks, i) ==
    LET k == TypeAt(ks, i) IN
    IF k = "INT_KEYWORD"
    THEN IF TypeAt(ks, i + 1) = "IDENTIFIER" /\ TypeAt(ks, i + 2) = "SEMICOLON"
         THEN i + 3 ELSE 0
    ELSE IF k = "IF_KEYWORD"
    THEN IF /\ TypeAt(ks, i + 1) = "LPAREN"
            /\ IsTermType(TypeAt(ks, i + 2))
            /\ TypeAt(ks, i + 3) = "EQ_OP"
            /\ IsTermType(TypeAt(ks, i + 4))
            /\ TypeAt(ks, i + 5) = "RPAREN"
            /\ TypeAt(ks, i + 6) = "LBRACE"
         THEN BodyEnd(ks, i + 7) ELSE 0
    ELSE IF k = "IDENTIFIER" /\ TypeAt(ks, i + 1) = "ASSIGN_OP"
    THEN LET e == ExpressionEnd(ks, i + 2)
         IN IF e # 0 /\ TypeAt(ks, e) = "SEMICOLON" THEN e + 1 ELSE 0
    ELSE 0
BodyEnd(ks, i) ==
    IF TypeAt(ks, i) = "RBRACE" THEN i + 1
    ELSE IF TypeAt(ks, i) = "EOF" THEN 0
    ELSE LET e == StatementEnd(ks, i) IN IF e = 0 THEN 0 ELSE BodyEnd(ks, e)

\* Program := Statement*
RECURSIVE IsProgram(_, _)
IsProgram(ks, i) ==
    IF i > Len(ks) THEN TRUE
    ELSE LET e == StatementEnd(ks, i) IN e # 0 /\ IsProgram(ks, e)

Grammatical(ts) == IsProgram(Types(ts), 1)

-----------------------------------------------------------------------------
(* The shapes of spec section 3 *)

IsLeaf(n) == n.children = <<>>
IsTermNode(n) ==
    /\ n.value \in {"Identifier", "Number"}
    /\ Len(n.children) = 1
    /\ IsLeaf(n.children[1])
IsExpressionNode(n) ==
    \/ IsTermNode(n)
    \/ /\ n.value \in {"+", "-"}
       /\ Len(n.children) = 2
       /\ IsTermNode(n.children[1])
       /\ IsTermNode(n.children[2])

RECURSIVE IsStatementNode(_)
IsStatementNode(n) ==
    IF n.value = "Declaration"
    THEN /\ Len(n.children) = 1
         /\ n.children[1].value = "Identifier"
         /\ IsTermNode(n.children[1])
    ELSE IF n.value = "Assignment"
    THEN /\ Len(n.children) = 2
         /\ n.children[1].value = "Identifier"
         /\ IsTermNode(n.children[1])
         /\ IsExpressionNode(n.children[2])
    ELSE IF n.value = "If"
    THEN /\ Len(n.children) = 2
         /\ n.children[1].value = "=="
         /\ Len(n.children[1].children) = 2
         /\ IsTermNode(n.children[1].children[1])
         /\ IsTermNode(n.children[1].children[2])
         /\ n.children[2].value = "Body"
         /\ \A i \in 1..Len(n.children[2].children) :
                IsStatementNode(n.children[2].children[i])
    ELSE FALSE

WellShaped(rt) ==
    /\ rt.value = "Program"
    /\ \A i \in 1..Len(rt.children) : IsStatementNode(rt.children[i])

-----------------------------------------------------------------------------
(* C1, C8, C9, C10: the parser *)

\* C1: parseProgram either returns or fails with the parse error, and
\* tokens[pos] is never read at a pos >= tokens.size(): no slot behind the
\* vector's end has been read and no read has faulted.
C1_NoReadBehindTheEnd == junk = <<>> /\ pc # "crashed"

\* C8: every tree parseProgram returns has the shapes its tags dictate, and
\* it returns one only for a token sequence of the grammar.
C8_TreeOnlyForGrammaticalTokens ==
    Returned => WellShaped(root) /\ Grammatical(tokens)

\* C9: when parseProgram returns a Program node the cursor equals the length
\* of the token sequence.
C9_CursorAtEndOnReturn == (Returned /\ run = 1) => pos = Len(tokens)

\* C10: the run of parseProgram ends by returning or by raising the parse
\* failure, never otherwise.
C10_EndsByReturnOrFailure == pc # "crashed"

-----------------------------------------------------------------------------
(* C2 *)

NothingWritten == printed = <<>> /\ ~header /\ listing = <<>>

\* C2: output is written only after parseProgram has returned a tree for the
\* whole token sequence, with nothing left pending and no error reported;
\* once the parse has failed, exactly one error line has been written, nothing
\* was written to the output, there is no tree, and the run has ended
\* normally.
C2_NoOutputAfterParseFailure ==
    /\ ~NothingWritten =>
          /\ pc \in {"header", "generate", "done"}
          /\ errs = <<>>
          /\ stack = <<>>
          /\ root.value = "Program"
          /\ pos >= Len(tokens)
    /\ errs # <<>> =>
          /\ errs \in {<<"Error: Unexpected token">>, <<"Error: Expected term">>}
          /\ NothingWritten
          /\ root = NoTree
          /\ pc = "done"
    /\ pc \in {"print", "header", "generate"} => errs = <<>> /\ stack = <<>>

\* C2 witness: the parse has failed at an unknown token where a statement
\* was expected, after statements that parsed
C2_Witness ==
    /\ pc = "done"
    /\ errs = <<"Error: Unexpected token">>
    /\ junk = <<>>
    /\ pos >= 3
    /\ pos < Len(tokens)
    /\ tokens[pos + 1].type = "UNKNOWN"
    /\ tokens[pos].type \in {"SEMICOLON", "RBRACE"}
    /\ NothingWritten

-----------------------------------------------------------------------------
(* C3 *)

\* C3: a second run of the pipeline on the same source, in the same process,
\* writes what the first run wrote.
C3_SecondRunWritesTheSame ==
    (run = 2 /\ pc = "done") =>
        first = [printed |-> printed, header |-> header, listing |-> listing,
                 errs |-> errs]

-----------------------------------------------------------------------------
(* C4, C5, C6: the listing.  The statements of the tree are located in the *)
(* listing by the number of lines each is to contribute.                   *)

\* the lines C6 gives for an Assignment node
AssignmentLines(n) ==
    LET t == n.children[1].children[1].value
        e == n.children[2]
        a == e.children[1]
        b == e.children[2]
    IN IF e.value = "Number" THEN << "  MVI A, " \o a.value, "  STA " \o t >>
       ELSE IF e.value = "+"
       THEN << IF a.value = "Identifier" THEN "  MOV A, " \o a.children[1].value
               ELSE "  MVI A, " \o a.children[1].value,
               IF b.value = "Identifier" THEN "  ADD " \o b.children[1].value
               ELSE "  ADI " \o b.children[1].value,
               "  STA " \o t >>
       ELSE << "  STA " \o t >>

\* the number of lines a statement is to contribute
RECURSIVE CodeLen(_), CodeLenAll(_)
CodeLen(n) ==
    IF n.value = "Assignment" THEN Len(AssignmentLines(n))
    ELSE IF n.value = "If" THEN 3 + CodeLenAll(n.children[2].children) + 1
    ELSE 0
CodeLenAll(ns) == IF ns = <<>> THEN 0 ELSE CodeLen(Head(ns)) + CodeLenAll(Tail(ns))

\* every statement of a statement list, nested ones included, with the number
\* of listing lines before its code; a body's statements follow the three
\* lines of the condition and the jump
RECURSIVE Sites(_, _, _)
Sites(ns, at, depth) ==
    IF ns = <<>> THEN {}
    ELSE LET n == Head(ns)
         IN {[node |-> n, at |-> at, depth |-> depth]}
            \cup (IF n.value = "If"
                  THEN Sites(n.children[2].children, at + 3, depth + 1) ELSE {})
            \cup Sites(Tail(ns), at + CodeLen(n), depth)

AllSites == Sites(root.children, 0, 0)
IfSites == {s \in AllSites : s.node.value = "If"}
AssignmentSites == {s \in AllSites : s.node.value = "Assignment"}

\* the If nodes of a statement list in pre-order
RECURSIVE IfsInPreOrder(_)
IfsInPreOrder(ns) ==
    IF ns = <<>> THEN <<>>
    ELSE LET n == Head(ns)
         IN (IF n.value = "If"
             THEN <<n>> \o IfsInPreOrder(n.children[2].children) ELSE <<>>)
            \o IfsInPreOrder(Tail(ns))

LineIndices(line) == {i \in 1..Len(listing) : listing[i] = line}
LabelNumbers == 0..Len(listing)
JnzLines == {JnzLine(k) : k \in LabelNumbers}
LabelLines == {LabelLine(k) : k \in LabelNumbers}
IsStaLine(i) == \E s \in AssignmentSites : listing[i] = "  STA " \o s.node.children[1].children[1].value

\* the code of a body's statements, one after the other from line at + 1 on:
\* an assignment's lines, an if's opening MOV and closing label definition
RECURSIVE InSourceOrder(_, _)
InSourceOrder(ns, at) ==
    \/ ns = <<>>
    \/ LET n == Head(ns)
       IN /\ n.value = "Assignment" =>
                SubSeq(listing, at + 1, at + CodeLen(n)) = AssignmentLines(n)
          /\ n.value = "If" =>
                /\ listing[at + 1]
                      = "  MOV A, " \o n.children[1].children[1].children[1].value
                /\ listing[at + CodeLen(n)] \in LabelLines
          /\ InSourceOrder(Tail(ns), at + CodeLen(n))

\* the statements inside the body of the if at site s, at any depth
Inside(s) == Sites(s.node.children[2].children, s.at + 3, s.depth + 1)

\* C4: the code of every If node is, contiguously and in this order, MOV A
\* with the condition's left text, CPI with its right text, JNZ LABELn, the
\* code of the body's statements in source order, and LABELn: with the same
\* n; the JNZ and the label definition of an if nested in it lie strictly
\* between its own JNZ and label definition; the listing is the code of the
\* program's statements and nothing else.
C4_IfCodeOrder ==
    Finished =>
      /\ Len(listing) = CodeLenAll(root.children)
      /\ InSourceOrder(root.children, 0)
      /\ \A s \in IfSites :
           LET c == s.node.children[1]
               jnz == s.at + 3
               last == s.at + CodeLen(s.node)
           IN /\ listing[s.at + 1] = "  MOV A, " \o c.children[1].children[1].value
              /\ listing[s.at + 2] = "  CPI " \o c.children[2].children[1].value
              /\ \E k \in LabelNumbers :
                    listing[jnz] = JnzLine(k) /\ listing[last] = LabelLine(k)
              /\ InSourceOrder(s.node.children[2].children, jnz)
              /\ last = jnz + CodeLenAll(s.node.children[2].children) + 1
              /\ \A t \in Inside(s) :
                    t.node.value = "If" =>
                       \A i \in LineIndices(listing[t.at + 3])
                                  \cup LineIndices(listing[t.at + CodeLen(t.node)]) :
                          jnz < i /\ i < last

\* C4 witness: the finished listing of a program with an if, nested in an if
\* between two assignments
C4_Witness ==
    /\ Finished
    /\ junk = <<>>
    /\ \E s \in IfSites, t \in IfSites :
          /\ s.depth = 0 /\ t.depth = 1
          /\ Len(s.node.children[2].children) = 3
          /\ s.node.children[2].children[2] = t.node
          /\ Len(t.node.children[2].children) = 1

\* C5: the label numbers of a listing are 0, 1, ... in the pre-order of the If
\* nodes; each number has exactly one JNZ line and exactly one definition,
\* the definition after the JNZ; the JNZ of a later If node comes later; and
\* the JNZ numbered k closes the condition of the k-th If node.
C5_LabelsUniqueInPreOrder ==
    Finished =>
      LET ifs == IfsInPreOrder(root.children)
      IN /\ labelCounter = Len(ifs)
         /\ Cardinality({i \in 1..Len(listing) : listing[i] \in JnzLines}) = Len(ifs)
         /\ Cardinality({i \in 1..Len(listing) : listing[i] \in LabelLines}) = Len(ifs)
         /\ \A k \in 1..Len(ifs) :
              /\ Cardinality(LineIndices(JnzLine(k - 1))) = 1
              /\ Cardinality(LineIndices(LabelLine(k - 1))) = 1
              /\ \A i \in LineIndices(JnzLine(k - 1)) :
                   /\ \A d \in LineIndices(LabelLine(k - 1)) : i < d
                   /\ i > 2
                   /\ listing[i - 2] = "  MOV A, " \o ifs[k].children[1].children[1].children[1].value
                   /\ listing[i - 1] = "  CPI " \o ifs[k].children[1].children[2].children[1].value
                   /\ \A m \in 1..(k - 1) : \A h \in LineIndices(JnzLine(m - 1)) : h < i

\* C5 witness: the finished listing of a program with an if nested in an if
\* and an if after them
C5_Witness ==
    /\ Finished
    /\ junk = <<>>
    /\ labelCounter >= 3
    /\ \E s \in IfSites : s.depth = 1
    /\ Cardinality({s \in IfSites : s.depth = 0}) >= 2

\* C6: the code of every Assignment node is exactly the lines of its case
\* (Number; "+" with each operand an Identifier or a Number; anything else),
\* the last of them STA with the target; the listing is as long as the
\* statements' lines together and has one STA line for each Assignment node.
C6_AssignmentCode ==
    Finished =>
      /\ Len(listing) = CodeLenAll(root.children)
      /\ \A s \in AssignmentSites :
           LET want == AssignmentLines(s.node)
           IN /\ SubSeq(listing, s.at + 1, s.at + Len(want)) = want
              /\ listing[s.at + Len(want)]
                    = "  STA " \o s.node.children[1].children[1].value
      /\ Cardinality({i \in 1..Len(listing) : IsStaLine(i)}) = Cardinality(AssignmentSites)

\* C6 witness: the finished listing of an assignment of a difference, which
\* is one STA line
C6_Witness ==
    /\ Finished
    /\ junk = <<>>
    /\ \E s \in AssignmentSites :
          /\ s.node.children[2].value = "-"
          /\ listing[s.at + 1] = "  STA x"
          /\ CodeLen(s.node) = 1

-----------------------------------------------------------------------------
(* What holds of the cursor and of termination beside C9 and C10 *)

\* the cursor never moves backwards, and moves by one token at a time
CursorOnlyAdvances == [][pos' = pos \/ pos' = pos + 1]_vars

\* every iteration of tokenize's loop moves the scan position forward
ScanAdvances == [][pc = "tokenize" /\ pc' = "tokenize" => scan' > scan]_vars

FairSpec == Spec /\ WF_vars(Next)

\* every run ends: main returns, or the process is killed
RunEnds == <>(pc \in {"done", "crashed"})

====
